---- MODULE Spec2Model ----
(***************************************************************************)
(* The news-ingestion pipeline of bloomathon: fetch_news of                *)
(* src/news_scraper.py and the two places of src/main.py that trigger it   *)
(* (the startup handler and the BackgroundScheduler interval job).         *)
(*                                                                         *)
(* Two specifications share the actions of fetch_news:                     *)
(*   Spec      fetch_news awaited again and again by a caller on one       *)
(*             persistent news collection whose writes succeed;            *)
(*   HostSpec  the process of main.py: module import, startup handler,     *)
(*             interval job, process restart; here update_one may raise.   *)
(* Both run on a store that outlives the calls and the processes.          *)
(*                                                                         *)
(* Python values are encoded so that TLC compares like with like:          *)
(*   None as image_id is 0 (GridFS ids are 1, 2, ...); a link that is      *)
(*   None is NoLink; a local that is not yet bound holds UnboundTitle or   *)
(*   UnboundRec.                                                           *)
(***************************************************************************)
EXTENDS Integers, Sequences, FiniteSets, TLC

\* ------------------------------------------------------------ bounds
\* The documents the users collection holds at most.
MaxUsers == 3
MaxListing == 2      \* most title elements a listing page matches
NumTitles  == 3      \* distinct title texts the sources can show
MaxBoots   == 2      \* process starts in HostSpec
MaxTicks   == 1      \* firings of the interval trigger per process start

\* ------------------------------------------------------------ configuration
\* WEBSITES: three source descriptors, in list order.
NumSites == 3
Sites == 1..NumSites
\* site["max_articles"] of each descriptor.
MaxArticles == <<6, 3, 1>>

\* The executions of fetch_news that can exist: the one awaited on the event
\* loop (by the startup handler, or by the caller of Spec) and the one the
\* scheduler's worker thread would make of the coroutine of run_fetch_news.
RunIds == {"main", "job"}

\* ------------------------------------------------------------ inputs
Titles == 1..NumTitles
\* The text of a title element: the title with or without surrounding blanks.
RawTexts == [core : Titles, padded : BOOLEAN]
\* article.get_text(strip=True)
GetTextStrip(text) == text.core

\* The href of a title element: no attribute, an empty one, or a reference.
Hrefs == {"absent", "empty", "present"}
Articles == [text : RawTexts, href : Hrefs]

NoLink == [form |-> "none", site |-> 0]
EmptyLink == [form |-> "empty", site |-> 0]
\* link = article["href"] if article.has_attr("href") else None
HrefOf(art) ==
    CASE art.href = "absent" -> NoLink
      [] art.href = "empty" -> EmptyLink
      [] OTHER -> [form |-> "href", site |-> 0]
\* Python truth of a link: None and "" are false.
Truthy(l) == l.form \notin {"none", "empty"}
\* Lines 170-171: the reference is made an absolute URL of the site (kept
\* when it starts with "http", put behind the site's host when it starts with
\* "/", put behind the site's listing URL otherwise). The three ways differ
\* only in the text of the URL; the model keeps the site it was found on.
FullLink(s, l) == [form |-> "url", site |-> s]

\* An attribute of the image element: absent, empty, a data:image URL, another
\* data: URL, a relative URL or an absolute one.
AttrVals == {"absent", "empty", "data_image", "data_other", "relative", "http"}
ImgTags == [found : {FALSE}] \cup
           [found : {TRUE}, data_src : AttrVals, src : AttrVals, srcset : AttrVals]
AttrTruthy(v) == v \notin {"absent", "empty"}
\* The alternative in which src is preferred over data-src.
ImgRefSrcFirst(tag) ==
    IF ~tag.found THEN "absent"
    ELSE IF AttrTruthy(tag.src) THEN tag.src
    ELSE IF AttrTruthy(tag.data_src) THEN tag.data_src
    ELSE tag.srcset

\* img_tag.get("data-src") or img_tag.get("src") or img_tag.get("srcset")
ImgRef(tag) ==
    IF ~tag.found THEN "absent"
    ELSE IF AttrTruthy(tag.data_src) THEN tag.data_src
    ELSE IF AttrTruthy(tag.src) THEN tag.src
    ELSE tag.srcset
NoImg == [kind |-> "none", site |-> 0]
\* urljoin(site["url"], img_url): a relative reference is joined to the
\* site's URL; an absolute URL and a data: URL come back unchanged.
UrlJoin(s, v) ==
    IF v = "relative" THEN [kind |-> "joined", site |-> s]
    ELSE [kind |-> v, site |-> 0]
\* Lines 183-190.
ImgUrlOf(s, tag) ==
    IF AttrTruthy(ImgRef(tag)) THEN UrlJoin(s, ImgRef(tag)) ELSE NoImg
\* Line 194: if img_url and not img_url.startswith("data:image")
Uploadable(u) == u.kind \notin {"none", "data_image"}

\* ------------------------------------------------------------ records
UnboundTitle == 0
UnboundRec == [title |-> 0, link |-> NoLink, image_id |-> 0,
               published_at |-> 0]
\* news_data of lines 198-203.
NewsData(t, l, img, now) ==
    [title |-> t, link |-> l, image_id |-> img, published_at |-> now]
\* The source a record originates from: the site its link was found on.
Origin(rec) == rec.link.site

\* The positions of the documents whose title is key.
Matches(st, key) == {i \in DOMAIN st : st[i].title = key}
FirstMatch(st, key) == CHOOSE i \in Matches(st, key) :
                           \A j \in Matches(st, key) : i <= j
\* db.news.update_one({"title": key}, {"$set": rec}, upsert=True): the first
\* document whose title is key gets the fields of rec; when there is none, a
\* document is inserted from the filter and then $set, which leaves it with
\* the fields of rec (title included).
UpdateOne(st, key, rec) ==
    IF Matches(st, key) # {}
    THEN [st EXCEPT ![FirstMatch(st, key)] = rec]
    ELSE Append(st, rec)

\* ------------------------------------------------------------ outbound HTTP
\* timeout=10 of the requests.get calls.
TimeoutSeconds == 10

\* The alternative in which the image request carries no timeout.
NoImageTimeout(kind) == IF kind = "image" THEN 0 ELSE TimeoutSeconds

\* The timeout of the requests.get call of each kind: the listing request
\* (line 143), the detail request (line 174), the image request (line 113).
HttpTimeout(kind) == TimeoutSeconds

\* A call made with a timeout comes back within it, with an answer or with
\* a failure; a call made without one may never come back.
Returns(kind) == HttpTimeout(kind) > 0

\* Lines 137-141: the headers dict of source s.
BrowserHeaders(s) ==
    [user_agent |-> "Mozilla/5.0", accept |-> "text/html", referer |-> s]

\* What requests sends when it is given no headers.
DefaultHeaders ==
    [user_agent |-> "python-requests", accept |-> "*/*", referer |-> 0]

\* The headers of each call: the listing request (line 143) and the detail
\* request (line 174) pass headers=headers; the image request (line 113)
\* passes none.
HeadersSent(kind, s) ==
    IF kind \in {"listing", "detail"} THEN BrowserHeaders(s) ELSE DefaultHeaders

\* ------------------------------------------------------------ read endpoints
\* to_list(100) of get_news and to_list(20) of get_news_articles.
NewsLimit == 100
ArticlesLimit == 20

\* find(...) without a sort gives the documents in natural order, which for
\* a collection that only ever grows or is updated in place is the order of
\* insertion; to_list(n) keeps the first n of them.
Find(st, n) == SubSeq(st, 1, IF Len(st) < n THEN Len(st) ELSE n)

\* An image_url of None.
NoUrl == [route |-> "none", id |-> 0]

\* Line 1012: the f-string puts whatever image_id holds after the route
\* prefix (an id of 0, None, is rendered as the text "None"); the test is on
\* the presence of the key.
ImageUrl(article) ==
    IF "image_id" \in DOMAIN article
    THEN [route |-> "/news/image/", id |-> article.image_id]
    ELSE NoUrl

\* Lines 1010-1012: the article as get_news_articles returns it.
WithImageUrl(article) ==
    [title |-> article.title, link |-> article.link,
     image_id |-> article.image_id, published_at |-> article.published_at,
     image_url |-> ImageUrl(article)]

\* No endpoint has answered since the process started.
NoResponse == [endpoint |-> "none", body |-> <<>>]

\* ------------------------------------------------------------ accounts
\* The emails people register with, and the email of the administrator. No
\* line of the program gives a user the role "admin": an administrator is a
\* document put into the users collection from outside, and is there from
\* the start.
Emails == {"ann"}
AdminEmail == "root"
Passwords == {"pw", "other"}
\* random.randint(100000, 999999): the two ends of the range.
Codes == {100000, 999999}
Callers == {"c1", "c2"}

\* pwd_context.hash(password): a bcrypt digest, which is not the password.
hash_password(p) == [bcrypt |-> p]
\* pwd_context.verify(plain_password, hashed_password)
verify_password(p, h) == h.bcrypt = p

\* user_data of lines 140-146. (A document shows is_suspended only once
\* suspend_user has set it; the model shows it as FALSE until then.)
UserData(email, hashed, code) ==
    [email |-> email, password |-> hashed, is_verified |-> FALSE,
     verification_code |-> code, role |-> "user", is_suspended |-> FALSE]
AdminDoc ==
    [email |-> AdminEmail, password |-> hash_password("pw"),
     is_verified |-> TRUE, verification_code |-> 100000, role |-> "admin",
     is_suspended |-> FALSE]

\* The positions of the documents with this email.
WithEmail(us, email) == {i \in DOMAIN us : us[i].email = email}
\* users_collection.find_one({"email": email}): the position of the first
\* such document, 0 for None.
get_user(us, email) ==
    IF WithEmail(us, email) = {} THEN 0
    ELSE CHOOSE i \in WithEmail(us, email) :
             \A j \in WithEmail(us, email) : i <= j
\* users_collection.update_one({"email": email}, {"$set": ...}): the first
\* such document gets the fields.
SetVerified(us, email) ==
    [i \in DOMAIN us |->
        IF i = get_user(us, email) THEN [us[i] EXCEPT !.is_verified = TRUE]
        ELSE us[i]]
SetSuspended(us, email) ==
    [i \in DOMAIN us |->
        IF i = get_user(us, email) THEN [us[i] EXCEPT !.is_suspended = TRUE]
        ELSE us[i]]

\* The claims create_access_token signs (lines 209-212); the expiry is left
\* out, the model follows a token while it is valid.
AccessToken(user) == [sub |-> user.email, role |-> user.role]

\* A register call: not under way, past the check of line 128, or past the
\* insert of line 149.
IdleCall == [at |-> "idle", email |-> "", password |-> "", code |-> 0]
\* A call of an account endpoint and its answer.
Exchange(op, email, given, status, detail) ==
    [op |-> op, email |-> email, given |-> given, status |-> status,
     detail |-> detail]
NoCall == Exchange("none", "", "", 0, "")

\* The alternative in which login does not look at is_verified.
VerifiedAlways(user) == TRUE
\* Line 204: user["is_verified"]
Verified(user) == user.is_verified

VARIABLES
    store,              \* db.news, in insertion order
    clock,              \* datetime.now(), as the number of records built
    nextId,             \* the next id GridFS hands out
    pc,                 \* where each execution of fetch_news stands
    site,               \* index into WEBSITES of the source loop
    idx,                \* position of the article loop in articles
    unique_articles,
    articles_processed, \* -1 while unbound
    title,
    link,
    img_url,
    image_id,
    news_data,
    \* bookkeeping of the model, per execution
    gateCount,          \* existing_news_count read at line 128 (-1 before)
    startStore,         \* the store when the execution was started
    requests,           \* kinds of outbound HTTP requests made
    listed,             \* sites whose listing page was requested
    listFailed,         \* sites whose listing request failed
    merges,             \* the update_one calls made, as MergeCall records
    dupSkipped,         \* line 164 skipped the last candidate as already seen
    detailFailed,       \* titles whose detail-page request failed
    detailFetches,      \* detail-page requests made for the source at hand
    imageTried,         \* the image step of the candidate at hand:
                        \* "no", "failed" or "stored"
    named,              \* how many of the titles have appeared so far
    \* the host process (HostSpec)
    host,               \* "off", "startup", "awaiting", "serving", "failed"
    boots,              \* process starts so far
    jobCalls,           \* times the worker thread called run_fetch_news()
    firedBusy,          \* a firing came while an execution was going
    response,           \* the last answer of a news read endpoint
    \* the accounts (auth.py, AuthSpec)
    users,              \* the users collection, in insertion order
    tokens,             \* the access tokens issued, as their claims
    reg,                \* the register calls under way, per caller
    authCall,           \* the last call of an account endpoint that ended:
                        \* what was sent and what came back
    verifiedOk          \* emails for which verify_email succeeded

locals == <<site, idx, unique_articles, articles_processed,
            title, link, img_url, image_id, news_data>>
ghosts == <<gateCount, startStore, requests, listed, listFailed, merges,
            dupSkipped, detailFailed, detailFetches, imageTried>>
hostVars == <<host, boots, jobCalls, firedBusy, response>>
authVars == <<users, tokens, reg, authCall, verifiedOk>>
vars == <<store, clock, nextId, pc, locals, ghosts, named, hostVars, authVars>>

InProgress(r) == pc[r] \notin {"idle", "done", "raised"}

\* ------------------------------------------------------------ fetch_news
\* The frame of a fresh call: no local is bound.
FreshFrame(r) ==
    /\ site' = [site EXCEPT ![r] = 0]
    /\ idx' = [idx EXCEPT ![r] = 0]
    /\ unique_articles' = [unique_articles EXCEPT ![r] = {}]
    /\ articles_processed' = [articles_processed EXCEPT ![r] = -1]
    /\ title' = [title EXCEPT ![r] = UnboundTitle]
    /\ link' = [link EXCEPT ![r] = NoLink]
    /\ img_url' = [img_url EXCEPT ![r] = NoImg]
    /\ image_id' = [image_id EXCEPT ![r] = 0]
    /\ news_data' = [news_data EXCEPT ![r] = UnboundRec]
    /\ gateCount' = [gateCount EXCEPT ![r] = -1]
    /\ startStore' = [startStore EXCEPT ![r] = store]
    /\ requests' = [requests EXCEPT ![r] = {}]
    /\ listed' = [listed EXCEPT ![r] = {}]
    /\ listFailed' = [listFailed EXCEPT ![r] = {}]
    /\ merges' = [merges EXCEPT ![r] = <<>>]
    /\ dupSkipped' = [dupSkipped EXCEPT ![r] = FALSE]
    /\ detailFailed' = [detailFailed EXCEPT ![r] = {}]
    /\ detailFetches' = [detailFetches EXCEPT ![r] = 0]
    /\ imageTried' = [imageTried EXCEPT ![r] = "no"]

\* With no document in the store and no other execution going, no title is
\* held anywhere, and the numbering of the titles starts again.
NamedAtEntry ==
    IF store = <<>> /\ \A r \in RunIds : ~InProgress(r) THEN 0 ELSE named

\* fetch_news(db) is entered.
Enter(r) ==
    /\ pc' = [pc EXCEPT ![r] = "gate"]
    /\ FreshFrame(r)

\* No execution of fetch_news exists (a process has just been started).
NoFrames ==
    /\ pc' = [r \in RunIds |-> "idle"]
    /\ site' = [r \in RunIds |-> 0]
    /\ idx' = [r \in RunIds |-> 0]
    /\ unique_articles' = [r \in RunIds |-> {}]
    /\ articles_processed' = [r \in RunIds |-> -1]
    /\ title' = [r \in RunIds |-> UnboundTitle]
    /\ link' = [r \in RunIds |-> NoLink]
    /\ img_url' = [r \in RunIds |-> NoImg]
    /\ image_id' = [r \in RunIds |-> 0]
    /\ news_data' = [r \in RunIds |-> UnboundRec]
    /\ gateCount' = [r \in RunIds |-> -1]
    /\ startStore' = [r \in RunIds |-> <<>>]
    /\ requests' = [r \in RunIds |-> {}]
    /\ listed' = [r \in RunIds |-> {}]
    /\ listFailed' = [r \in RunIds |-> {}]
    /\ merges' = [r \in RunIds |-> <<>>]
    /\ dupSkipped' = [r \in RunIds |-> FALSE]
    /\ detailFailed' = [r \in RunIds |-> {}]
    /\ detailFetches' = [r \in RunIds |-> 0]
    /\ imageTried' = [r \in RunIds |-> "no"]

\* The alternative in which no count ends the call.
GateNeverCloses(count) == FALSE

\* Line 129: the test on the count of documents.
GateCloses(count) == count > 0

\* Line 128-131: the count is read; a store that holds a record ends the call.
GateSkip(r) ==
    /\ pc[r] = "gate"
    /\ GateCloses(Len(store))
    /\ gateCount' = [gateCount EXCEPT ![r] = Len(store)]
    /\ pc' = [pc EXCEPT ![r] = "done"]
    /\ UNCHANGED <<store, clock, nextId, locals, startStore, requests, listed,
                   listFailed, merges, dupSkipped, detailFailed, detailFetches, imageTried, named, hostVars,
                   authVars>>

\* Lines 133-136: an empty store lets the call go on to the source loop.
GateOpen(r) ==
    /\ pc[r] = "gate"
    /\ ~GateCloses(Len(store))
    /\ gateCount' = [gateCount EXCEPT ![r] = 0]
    /\ unique_articles' = [unique_articles EXCEPT ![r] = {}]
    /\ site' = [site EXCEPT ![r] = 1]
    /\ pc' = [pc EXCEPT ![r] = "listing"]
    /\ UNCHANGED <<store, clock, nextId, idx, articles_processed,
                   title, link, img_url, image_id, news_data, startStore,
                   requests, listed, listFailed, merges, dupSkipped, detailFailed, detailFetches,
                   imageTried, named, hostVars, authVars>>

\* The source loop takes its next descriptor, or ends (line 208) after the last.
AdvanceSite(r) ==
    IF site[r] < NumSites
    THEN /\ site' = [site EXCEPT ![r] = site[r] + 1]
         /\ pc' = [pc EXCEPT ![r] = "listing"]
    ELSE /\ site' = site
         /\ pc' = [pc EXCEPT ![r] = "trailing"]

\* The listing request is made (line 143).
RequestListing(r) ==
    /\ Returns("listing")
    /\ requests' = [requests EXCEPT ![r] = requests[r] \cup {"listing"}]
    /\ listed' = [listed EXCEPT ![r] = listed[r] \cup {site[r]}]

\* The alternative in which a failed listing request ends the source loop.
ListingFailEndsLoop(r) ==
    /\ site' = site
    /\ pc' = [pc EXCEPT ![r] = "trailing"]

\* Where a failed listing request leaves the source loop (line 147: continue).
AfterListingFail(r) == AdvanceSite(r)

\* Lines 142-147: the listing request fails (timeout, connection error,
\* non-2xx): continue with the next source.
ListingFail(r) ==
    /\ pc[r] = "listing"
    /\ RequestListing(r)
    /\ listFailed' = [listFailed EXCEPT ![r] = listFailed[r] \cup {site[r]}]
    /\ AfterListingFail(r)
    /\ UNCHANGED <<store, clock, nextId, idx, unique_articles,
                   articles_processed, title, link, img_url, image_id,
                   news_data, gateCount, startStore, merges, dupSkipped, detailFailed, detailFetches,
                   imageTried, named, hostVars, authVars>>

\* Lines 149-154: the title selector matches nothing: continue.
ListingEmpty(r) ==
    /\ pc[r] = "listing"
    /\ RequestListing(r)
    /\ AdvanceSite(r)
    /\ UNCHANGED <<store, clock, nextId, idx, unique_articles,
                   articles_processed, title, link, img_url, image_id,
                   news_data, gateCount, startStore, listFailed, merges,
                   dupSkipped, detailFailed, detailFetches, imageTried, named, hostVars,
                   authVars>>

\* Lines 149-157: the selector matches at least one element; the article
\* loop starts with articles_processed = 0. How many elements the page
\* matches (at most MaxListing) shows as the loop asks for the next one.
ListingOk(r) ==
    /\ pc[r] = "listing"
    /\ RequestListing(r)
    /\ idx' = [idx EXCEPT ![r] = 1]
    /\ articles_processed' = [articles_processed EXCEPT ![r] = 0]
    /\ detailFetches' = [detailFetches EXCEPT ![r] = 0]
    /\ pc' = [pc EXCEPT ![r] = "loop"]
    /\ UNCHANGED <<store, clock, nextId, site, unique_articles, title, link,
                   img_url, image_id, news_data, gateCount, startStore,
                   listFailed, merges, dupSkipped, detailFailed, imageTried, named, hostVars,
                   authVars>>

\* Line 157: the article loop has no element left.
LoopEnd(r) ==
    /\ pc[r] = "loop"
    /\ idx[r] > 1
    /\ AdvanceSite(r)
    /\ UNCHANGED <<store, clock, nextId, idx, unique_articles,
                   articles_processed, title, link, img_url, image_id,
                   news_data, ghosts, named, hostVars, authVars>>

\* Line 158: if articles_processed >= site["max_articles"]
CapReached(r) == articles_processed[r] >= MaxArticles[site[r]]

\* Lines 158-159: break.
CapBreak(r) ==
    /\ pc[r] = "loop"
    /\ idx[r] <= MaxListing
    /\ CapReached(r)
    /\ AdvanceSite(r)
    /\ UNCHANGED <<store, clock, nextId, idx, unique_articles,
                   articles_processed, title, link, img_url, image_id,
                   news_data, ghosts, named, hostVars, authVars>>

\* Line 164: if title in unique_articles or not link
ShouldSkip(seen, t, l) == t \in seen \/ ~Truthy(l)

\* The alternative in which a skipped candidate's title is remembered.
SeenAfterSkipAdds(seen, t) == seen \cup {t}

\* Line 165 comes before line 167: a skipped candidate leaves
\* unique_articles as it was.
SeenAfterSkip(seen, t) == seen

\* The title elements a listing can show next. Titles are only ever compared
\* for equality, so they are numbered in the order in which they first
\* appear: the next element shows a title that has appeared, or the next new
\* one.
NextArticles == {art \in Articles : art.text.core <= named + 1}
Appeared(t) == IF t > named THEN t ELSE named

\* Lines 161-165: the element's title and link are read; a seen title or a
\* missing link skips it (continue). (link is bound too, to the raw href;
\* nothing reads it before the next element rebinds it, and the model
\* leaves it as it was.)
SkipCandidate(r) ==
    /\ pc[r] = "loop"
    /\ idx[r] <= MaxListing
    /\ ~CapReached(r)
    /\ \E art \in NextArticles :
         LET t == GetTextStrip(art.text)
             l == HrefOf(art)
         IN /\ ShouldSkip(unique_articles[r], t, l)
            /\ title' = [title EXCEPT ![r] = t]
            /\ named' = Appeared(t)
            /\ dupSkipped' = [dupSkipped EXCEPT ![r] = t \in unique_articles[r]]
            /\ unique_articles' = [unique_articles EXCEPT ![r] =
                   SeenAfterSkip(unique_articles[r], t)]
    /\ idx' = [idx EXCEPT ![r] = idx[r] + 1]
    /\ UNCHANGED <<store, clock, nextId, pc, site,
                   articles_processed, link, img_url, image_id, news_data,
                   gateCount, startStore, requests, listed, listFailed,
                   merges, detailFailed, detailFetches, imageTried, hostVars,
                   authVars>>

\* The alternative in which a taken title is not remembered before its
\* detail page is requested.
SeenAfterTakeDeferred(seen, t) == seen

\* Line 167: unique_articles.add(title), before the request of line 174.
SeenAfterTake(seen, t) == seen \cup {t}

\* Lines 161-171: the candidate is taken: its title joins unique_articles
\* and its link is made absolute; the detail page is requested next.
AcceptCandidate(r) ==
    /\ pc[r] = "loop"
    /\ idx[r] <= MaxListing
    /\ ~CapReached(r)
    /\ \E art \in NextArticles :
         LET t == GetTextStrip(art.text)
             l == HrefOf(art)
         IN /\ ~ShouldSkip(unique_articles[r], t, l)
            /\ title' = [title EXCEPT ![r] = t]
            /\ named' = Appeared(t)
            /\ link' = [link EXCEPT ![r] = FullLink(site[r], l)]
            /\ unique_articles' =
                   [unique_articles EXCEPT ![r] =
                       SeenAfterTake(unique_articles[r], t)]
    /\ dupSkipped' = [dupSkipped EXCEPT ![r] = FALSE]
    /\ pc' = [pc EXCEPT ![r] = "detail"]
    /\ UNCHANGED <<store, clock, nextId, site, idx,
                   articles_processed, img_url, image_id, news_data,
                   gateCount, startStore, requests, listed, listFailed,
                   merges, detailFailed, detailFetches, imageTried, hostVars,
                   authVars>>

\* The alternative in which a failed detail request leaves the article loop
\* of its source (break).
DetailFailLeavesSource(r) ==
    /\ idx' = idx
    /\ AdvanceSite(r)
    /\ UNCHANGED <<store, news_data, articles_processed>>

\* The alternative in which a candidate dropped for a failed detail request
\* counts towards the cap.
DetailFailCounts(r) ==
    /\ idx' = [idx EXCEPT ![r] = idx[r] + 1]
    /\ pc' = [pc EXCEPT ![r] = "loop"]
    /\ articles_processed' =
           [articles_processed EXCEPT ![r] = articles_processed[r] + 1]
    /\ UNCHANGED <<site, store, news_data>>

\* Where a failed detail request leaves the article loop (line 178: continue).
AfterDetailFail(r) ==
    /\ idx' = [idx EXCEPT ![r] = idx[r] + 1]
    /\ pc' = [pc EXCEPT ![r] = "loop"]
    /\ UNCHANGED <<site, store, news_data, articles_processed>>

\* Lines 173-178: the detail request fails: the candidate is dropped.
DetailFail(r) ==
    /\ pc[r] = "detail"
    /\ Returns("detail")
    /\ requests' = [requests EXCEPT ![r] = requests[r] \cup {"detail"}]
    /\ detailFailed' = [detailFailed EXCEPT ![r] = detailFailed[r] \cup {title[r]}]
    /\ detailFetches' = [detailFetches EXCEPT ![r] = detailFetches[r] + 1]
    /\ AfterDetailFail(r)
    /\ UNCHANGED <<clock, nextId, unique_articles, title, link,
                   img_url, image_id, gateCount, startStore, listed,
                   listFailed, merges, dupSkipped, imageTried, named,
                   hostVars, authVars>>

\* Lines 173-195: the detail page arrives; the image reference is taken from
\* the first element the image selector matches and made absolute; image_id
\* starts as None; a usable reference goes to upload_image_to_gridfs.
DetailOkTag(r, tag) ==
    /\ pc[r] = "detail"
    /\ Returns("detail")
    /\ requests' = [requests EXCEPT ![r] = requests[r] \cup {"detail"}]
    /\ LET u == ImgUrlOf(site[r], tag)
       IN /\ img_url' = [img_url EXCEPT ![r] = IF Uploadable(u) THEN u ELSE NoImg]
          /\ pc' = [pc EXCEPT ![r] = IF Uploadable(u) THEN "image" ELSE "upsert"]
    /\ image_id' = [image_id EXCEPT ![r] = 0]
    /\ imageTried' = [imageTried EXCEPT ![r] = "no"]
    /\ detailFetches' = [detailFetches EXCEPT ![r] = detailFetches[r] + 1]
    /\ UNCHANGED <<store, clock, nextId, site, idx, unique_articles,
                   articles_processed, title, link, news_data, gateCount,
                   startStore, listed, listFailed, merges, dupSkipped, detailFailed,
                   named, hostVars, authVars>>

\* The detail page shows some image element, or none.
DetailOk(r) == \E tag \in ImgTags : DetailOkTag(r, tag)

\* The alternative in which requests.get fetches a URL of any scheme.
FetchableAnyScheme(u) == TRUE

\* requests.get can reach the network only for an http(s) URL; for any other
\* scheme it raises before a request is made.
Fetchable(u) == u.kind \in {"joined", "http"}

\* The alternative in which a candidate whose image could not be stored is
\* dropped.
ImageFailureDropsCandidate(r) ==
    /\ image_id' = [image_id EXCEPT ![r] = 0]
    /\ img_url' = [img_url EXCEPT ![r] = NoImg]
    /\ imageTried' = [imageTried EXCEPT ![r] = "failed"]
    /\ pc' = [pc EXCEPT ![r] = "loop"]

\* Lines 120-122 and 195: upload_image_to_gridfs caught an exception and
\* returned None; fetch_news goes on to build the record. (img_url is not
\* read again before line 183 rebinds it: the model forgets it here, and
\* keeps it after line 190 only when line 194 lets it through.)
AfterImageNone(r) ==
    /\ image_id' = [image_id EXCEPT ![r] = 0]
    /\ img_url' = [img_url EXCEPT ![r] = NoImg]
    /\ imageTried' = [imageTried EXCEPT ![r] = "failed"]
    /\ pc' = [pc EXCEPT ![r] = "upsert"]

\* Lines 112-114: requests.get raises or raise_for_status rejects the answer.
ImageFetchFail(r) ==
    /\ pc[r] = "image"
    /\ Returns("image")
    /\ requests' = [requests EXCEPT ![r] =
                       IF Fetchable(img_url[r]) THEN requests[r] \cup {"image"}
                       ELSE requests[r]]
    /\ AfterImageNone(r)
    /\ UNCHANGED <<store, clock, nextId, site, idx, unique_articles,
                   articles_processed, title, link, news_data,
                   gateCount, startStore, listed, listFailed, merges,
                   dupSkipped, detailFailed, detailFetches, named, hostVars,
                   authVars>>

\* Lines 117-118: the bytes arrive and upload_from_stream raises.
BlobUploadFail(r) ==
    /\ pc[r] = "image"
    /\ Returns("image")
    /\ Fetchable(img_url[r])
    /\ requests' = [requests EXCEPT ![r] = requests[r] \cup {"image"}]
    /\ AfterImageNone(r)
    /\ UNCHANGED <<store, clock, nextId, site, idx, unique_articles,
                   articles_processed, title, link, news_data,
                   gateCount, startStore, listed, listFailed, merges,
                   dupSkipped, detailFailed, detailFetches, named, hostVars,
                   authVars>>

\* Lines 112-119: the image is stored and its id returned.
ImageStored(r) ==
    /\ pc[r] = "image"
    /\ Returns("image")
    /\ Fetchable(img_url[r])
    /\ requests' = [requests EXCEPT ![r] = requests[r] \cup {"image"}]
    /\ image_id' = [image_id EXCEPT ![r] = nextId]
    /\ img_url' = [img_url EXCEPT ![r] = NoImg]
    /\ nextId' = nextId + 1
    /\ imageTried' = [imageTried EXCEPT ![r] = "stored"]
    /\ pc' = [pc EXCEPT ![r] = "upsert"]
    /\ UNCHANGED <<store, clock, site, idx, unique_articles,
                   articles_processed, title, link, news_data,
                   gateCount, startStore, listed, listFailed, merges,
                   dupSkipped, detailFailed, detailFetches, named, hostVars,
                   authVars>>

\* The record an update_one call leaves in the log of the model.
MergeCall(key, rec, place, ok) ==
    [key |-> key, rec |-> rec, place |-> place, ok |-> ok]

\* Lines 197-206: news_data is built and upserted under the candidate's
\* title; the candidate counts towards the cap; the loop goes on.
Upsert(r) ==
    /\ pc[r] = "upsert"
    /\ LET rec == NewsData(title[r], link[r], image_id[r], clock + 1)
       IN /\ news_data' = [news_data EXCEPT ![r] = rec]
          /\ store' = UpdateOne(store, title[r], rec)
          /\ merges' = [merges EXCEPT ![r] =
                           Append(merges[r], MergeCall(title[r], rec, "loop", TRUE))]
    /\ clock' = clock + 1
    /\ articles_processed' =
           [articles_processed EXCEPT ![r] = articles_processed[r] + 1]
    /\ idx' = [idx EXCEPT ![r] = idx[r] + 1]
    /\ pc' = [pc EXCEPT ![r] = "loop"]
    /\ UNCHANGED <<nextId, site, unique_articles, title, link,
                   img_url, image_id, gateCount, startStore, requests, listed,
                   listFailed, dupSkipped, detailFailed, detailFetches, imageTried, named, hostVars,
                   authVars>>

\* Line 205 raises (the store refuses the write): nothing in fetch_news
\* catches it, the exception leaves the call.
UpsertRaises(r) ==
    /\ pc[r] = "upsert"
    /\ LET rec == NewsData(title[r], link[r], image_id[r], clock + 1)
       IN /\ news_data' = [news_data EXCEPT ![r] = rec]
          /\ merges' = [merges EXCEPT ![r] =
                           Append(merges[r], MergeCall(title[r], rec, "loop", FALSE))]
    /\ clock' = clock + 1
    /\ pc' = [pc EXCEPT ![r] = "raised"]
    /\ UNCHANGED <<store, nextId, site, idx, unique_articles,
                   articles_processed, title, link, img_url, image_id,
                   gateCount, startStore, requests, listed, listFailed,
                   dupSkipped, detailFailed, detailFetches, imageTried, named, hostVars,
                   authVars>>

\* Lines 217-221 read title and news_data: both must be bound.
TrailingBound(r) == title[r] # UnboundTitle /\ news_data[r] # UnboundRec

\* Lines 216-222 are indented into fetch_news and follow the source loop.
\* No candidate was read, or none got as far as line 198: reading the
\* unbound local raises UnboundLocalError.
TrailingUnbound(r) ==
    /\ pc[r] = "trailing"
    /\ ~TrailingBound(r)
    /\ pc' = [pc EXCEPT ![r] = "raised"]
    /\ UNCHANGED <<store, clock, nextId, locals, ghosts, named, hostVars, authVars>>

\* Lines 217-222: one more update_one, under the title read last, with the
\* news_data built last; then the call returns.
TrailingUpsert(r) ==
    /\ pc[r] = "trailing"
    /\ TrailingBound(r)
    /\ store' = UpdateOne(store, title[r], news_data[r])
    /\ merges' = [merges EXCEPT ![r] =
                     Append(merges[r],
                            MergeCall(title[r], news_data[r], "trailing", TRUE))]
    /\ articles_processed' =
           [articles_processed EXCEPT ![r] = articles_processed[r] + 1]
    /\ pc' = [pc EXCEPT ![r] = "done"]
    /\ UNCHANGED <<clock, nextId, site, idx, unique_articles, title,
                   link, img_url, image_id, news_data, gateCount, startStore,
                   requests, listed, listFailed, dupSkipped, detailFailed, detailFetches, imageTried,
                   named, hostVars, authVars>>

\* Line 217 raises (the store refuses the write).
TrailingRaises(r) ==
    /\ pc[r] = "trailing"
    /\ TrailingBound(r)
    /\ merges' = [merges EXCEPT ![r] =
                     Append(merges[r],
                            MergeCall(title[r], news_data[r], "trailing", FALSE))]
    /\ pc' = [pc EXCEPT ![r] = "raised"]
    /\ UNCHANGED <<store, clock, nextId, locals, gateCount, startStore, requests,
                   listed, listFailed, dupSkipped, detailFailed, detailFetches, imageTried, named, hostVars,
                   authVars>>

\* The steps of fetch_news past its gate, with a store that takes every write.
Steps(r) ==
    \/ GateOpen(r)
    \/ ListingFail(r)
    \/ ListingEmpty(r)
    \/ ListingOk(r)
    \/ LoopEnd(r)
    \/ CapBreak(r)
    \/ SkipCandidate(r)
    \/ AcceptCandidate(r)
    \/ DetailFail(r)
    \/ DetailOk(r)
    \/ ImageFetchFail(r)
    \/ BlobUploadFail(r)
    \/ ImageStored(r)
    \/ Upsert(r)
    \/ TrailingUnbound(r)
    \/ TrailingUpsert(r)

\* ------------------------------------------------------------ Spec
\* A caller awaits fetch_news(db); when it has returned or raised, the
\* caller may await it again.
Call ==
    /\ ~InProgress("main")
    /\ Enter("main")
    /\ named' = NamedAtEntry
    /\ UNCHANGED <<store, clock, nextId, hostVars, authVars>>

Init ==
    /\ store = <<>>
    /\ clock = 0
    /\ nextId = 1
    /\ pc = [r \in RunIds |-> "idle"]
    /\ site = [r \in RunIds |-> 0]
    /\ idx = [r \in RunIds |-> 0]
    /\ unique_articles = [r \in RunIds |-> {}]
    /\ articles_processed = [r \in RunIds |-> -1]
    /\ title = [r \in RunIds |-> UnboundTitle]
    /\ link = [r \in RunIds |-> NoLink]
    /\ img_url = [r \in RunIds |-> NoImg]
    /\ image_id = [r \in RunIds |-> 0]
    /\ news_data = [r \in RunIds |-> UnboundRec]
    /\ gateCount = [r \in RunIds |-> -1]
    /\ startStore = [r \in RunIds |-> <<>>]
    /\ requests = [r \in RunIds |-> {}]
    /\ listed = [r \in RunIds |-> {}]
    /\ listFailed = [r \in RunIds |-> {}]
    /\ merges = [r \in RunIds |-> <<>>]
    /\ dupSkipped = [r \in RunIds |-> FALSE]
    /\ detailFailed = [r \in RunIds |-> {}]
    /\ detailFetches = [r \in RunIds |-> 0]
    /\ imageTried = [r \in RunIds |-> "no"]
    /\ named = 0
    /\ host = "off"
    /\ boots = 0
    /\ jobCalls = 0
    /\ firedBusy = FALSE
    /\ response = NoResponse
    /\ users = <<AdminDoc>>
    /\ tokens = {}
    /\ reg = [c \in Callers |-> IdleCall]
    /\ authCall = NoCall
    /\ verifiedOk = {}

Next ==
    \/ Call
    \/ \E r \in RunIds : GateSkip(r)
    \/ \E r \in RunIds : Steps(r)

Spec == Init /\ [][Next]_vars

\* An execution that has been started is run on: the caller awaits it, and
\* no step of fetch_news waits for anything but the calls it makes.
FairSpec ==
    Spec /\ WF_vars(\E r \in RunIds : GateSkip(r) \/ Steps(r))

\* ------------------------------------------------------------ HostSpec
\* main.py is imported by a fresh process: lines 22-52 build the app and
\* start the BackgroundScheduler with its one interval job; the startup
\* handler has yet to run. The store is the database's and is kept.
Boot ==
    /\ host \in {"off", "serving", "failed"}
    /\ boots < MaxBoots
    /\ boots' = boots + 1
    /\ host' = "startup"
    /\ jobCalls' = 0
    /\ firedBusy' = FALSE
    /\ response' = NoResponse
    /\ NoFrames
    /\ UNCHANGED <<store, clock, nextId, named, authVars>>

\* Lines 1171-1172: the startup handler counts the documents; with one or
\* more it returns, and the app starts serving.
StartupSkip ==
    /\ host = "startup"
    /\ Len(store) # 0
    /\ host' = "serving"
    /\ UNCHANGED <<store, clock, nextId, pc, locals, ghosts, named, boots,
                   jobCalls, firedBusy, response, authVars>>

\* Lines 1172-1173: with none, it awaits fetch_news(db).
StartupFetch ==
    /\ host = "startup"
    /\ Len(store) = 0
    /\ host' = "awaiting"
    /\ Enter("main")
    /\ named' = NamedAtEntry
    /\ UNCHANGED <<store, clock, nextId, boots, jobCalls, firedBusy,
                   response, authVars>>

\* fetch_news returned: the startup handler returns, the app serves.
StartupReturns ==
    /\ host = "awaiting"
    /\ pc["main"] = "done"
    /\ host' = "serving"
    /\ UNCHANGED <<store, clock, nextId, pc, locals, ghosts, named, boots,
                   jobCalls, firedBusy, response, authVars>>

\* What the startup handler does with an exception that fetch_news raised:
\* lines 1171-1173 hold no try, so the exception leaves the handler, the
\* application's startup fails and the server process exits.
StartupOnRaise == "failed"

StartupRaises ==
    /\ host = "awaiting"
    /\ pc["main"] = "raised"
    /\ host' = StartupOnRaise
    /\ UNCHANGED <<store, clock, nextId, pc, locals, ghosts, named, boots,
                   jobCalls, firedBusy, response, authVars>>

\* The alternative in which the worker thread runs the coroutine to its end
\* (as an asyncio executor, or asyncio.run in the job, would): an execution
\* of fetch_news starts beside whatever the event loop is running.
RunJobAwaited ==
    IF InProgress("job")
    THEN UNCHANGED <<pc, locals, ghosts, named>>
    ELSE Enter("job") /\ named' = NamedAtEntry

\* Lines 47-51: the job is the coroutine function run_fetch_news, and the
\* scheduler is a BackgroundScheduler: its worker thread calls
\* run_fetch_news(), which only makes a coroutine object; nothing awaits it,
\* so no line of fetch_news runs.
RunJob == UNCHANGED <<pc, locals, ghosts, named>>

\* Line 51: the interval trigger fires while the process is alive.
IntervalFires ==
    /\ host \in {"startup", "awaiting", "serving"}
    /\ jobCalls < MaxTicks
    /\ jobCalls' = jobCalls + 1
    /\ firedBusy' = (firedBusy \/ InProgress("main"))
    /\ RunJob
    /\ UNCHANGED <<store, clock, nextId, host, boots, response, authVars>>

\* The server accepts requests once the startup handler has returned: the
\* handler is awaited before the application starts to serve, and
\* fetch_news holds the event loop in its blocking requests.get calls.
Accepting == host = "serving"

\* Lines 991-997: GET /news.
GetNews ==
    /\ Accepting
    /\ response' = [endpoint |-> "/news", body |-> Find(store, NewsLimit)]
    /\ UNCHANGED <<store, clock, nextId, pc, locals, ghosts, named, host,
                   boots, jobCalls, firedBusy, authVars>>

\* Lines 1007-1014: GET /news/articles.
GetNewsArticles ==
    /\ Accepting
    /\ LET found == Find(store, ArticlesLimit)
       IN response' = [endpoint |-> "/news/articles",
                       body |-> [i \in DOMAIN found |-> WithImageUrl(found[i])]]
    /\ UNCHANGED <<store, clock, nextId, pc, locals, ghosts, named, host,
                   boots, jobCalls, firedBusy, authVars>>

HostInit == Init

\* GateSkip is not among the steps: the startup handler calls fetch_news
\* right after counting no document, and nothing writes between the two
\* counts.
HostNext ==
    \/ Boot
    \/ StartupSkip
    \/ StartupFetch
    \/ StartupReturns
    \/ StartupRaises
    \/ IntervalFires
    \/ GetNews
    \/ GetNewsArticles
    \/ \E r \in RunIds : Steps(r)
    \/ \E r \in RunIds : UpsertRaises(r)
    \/ \E r \in RunIds : TrailingRaises(r)

HostSpec == HostInit /\ [][HostNext]_vars

\* ------------------------------------------------------------ RaceSpec
\* Two executions of fetch_news on one event loop and one store, each
\* called once (as the startup handler's and a job's that is awaited would
\* be). A coroutine keeps the loop until it awaits: at count_documents
\* (line 128), inside upload_image_to_gridfs (line 118), at the update_one
\* calls (lines 205 and 217); requests.get blocks and yields to nobody.
AtAwait(r) ==
    pc[r] \in {"idle", "gate", "image", "upsert", "trailing", "done", "raised"}

CallOnce(r) ==
    /\ pc[r] = "idle"
    /\ Enter(r)
    /\ named' = NamedAtEntry
    /\ UNCHANGED <<store, clock, nextId, hostVars, authVars>>

\* The surroundings RaceSpec looks at: of the three sources only the first
\* answers; the listing requests of the others fail.
OnlyFirstSourceUp(r) ==
    (pc[r] = "listing" /\ site[r] > 1) => listFailed'[r] # listFailed[r]

RaceStep(r) ==
    /\ \A other \in RunIds \ {r} : AtAwait(other)
    /\ GateSkip(r) \/ Steps(r)
    /\ OnlyFirstSourceUp(r)

RaceNext ==
    \/ \E r \in RunIds : CallOnce(r)
    \/ \E r \in RunIds : RaceStep(r)

RaceSpec == Init /\ [][RaceNext]_vars

\* ------------------------------------------------------------ AuthSpec
\* The account endpoints of auth.py and suspend_user of main.py, called in
\* any order; two register calls can be under way at once, each resumed at
\* its await points.
newsVars == <<store, clock, nextId, pc, locals, ghosts, named, hostVars>>

\* The register calls that may still insert a document.
Inserting == {c \in Callers : reg[c].at = "checked"}

\* Lines 128-130: register finds a user with the email and rejects the call.
RegisterRejected(c, email, password) ==
    /\ reg[c].at = "idle"
    /\ get_user(users, email) # 0
    /\ authCall' = Exchange("register", email, password, 400,
                            "Email already registered")
    /\ UNCHANGED <<users, tokens, reg, verifiedOk, newsVars>>

\* Lines 128-137: register finds no user with the email; the password is
\* hashed and a code drawn.
RegisterChecked(c, email, password) ==
    /\ reg[c].at = "idle"
    /\ get_user(users, email) = 0
    /\ Len(users) + Cardinality(Inserting) < MaxUsers
    /\ \E code \in Codes :
          reg' = [reg EXCEPT ![c] = [at |-> "checked", email |-> email,
                                     password |-> password, code |-> code]]
    /\ UNCHANGED <<users, tokens, authCall, verifiedOk, newsVars>>

\* Lines 140-149: the document is inserted.
RegisterInsert(c) ==
    /\ reg[c].at = "checked"
    /\ users' = Append(users, UserData(reg[c].email,
                                       hash_password(reg[c].password),
                                       reg[c].code))
    /\ reg' = [reg EXCEPT ![c].at = "inserted"]
    /\ UNCHANGED <<tokens, authCall, verifiedOk, newsVars>>

\* Lines 152-155: the verification email goes out; the caller is redirected
\* to the verification page.
RegisterSent(c) ==
    /\ reg[c].at = "inserted"
    /\ authCall' = Exchange("register", reg[c].email, reg[c].password, 303,
                            "/auth/verify")
    /\ reg' = [reg EXCEPT ![c] = IdleCall]
    /\ UNCHANGED <<users, tokens, verifiedOk, newsVars>>

\* Lines 114-116 and 157-159: sending fails; send_verification_email raises
\* an HTTPException, register catches it as an Exception and answers 500.
\* Nothing touches the users collection.
RegisterSendFails(c) ==
    /\ reg[c].at = "inserted"
    /\ authCall' = Exchange("register", reg[c].email, reg[c].password, 500,
                            "Failed to send verification email")
    /\ reg' = [reg EXCEPT ![c] = IdleCall]
    /\ UNCHANGED <<users, tokens, verifiedOk, newsVars>>

\* Lines 175-185: verify_email.
VerifyEmail(email, code) ==
    LET i == get_user(users, email)
    IN /\ IF i = 0
          THEN /\ authCall' = Exchange("verify-email", email, code, 404,
                                       "User not found")
               /\ UNCHANGED <<users, verifiedOk>>
          ELSE IF users[i].verification_code # code
          THEN /\ authCall' = Exchange("verify-email", email, code, 400,
                                       "Invalid verification code")
               /\ UNCHANGED <<users, verifiedOk>>
          ELSE /\ users' = SetVerified(users, email)
               /\ verifiedOk' = verifiedOk \cup {email}
               /\ authCall' = Exchange("verify-email", email, code, 200,
                                       "Email verified successfully")
       /\ UNCHANGED <<tokens, reg, newsVars>>

\* Lines 196-224: login.
Login(email, password) ==
    LET i == get_user(users, email)
    IN /\ IF i = 0
          THEN /\ authCall' = Exchange("login", email, password, 404,
                                       "User not found")
               /\ tokens' = tokens
          ELSE IF ~verify_password(password, users[i].password)
          THEN /\ authCall' = Exchange("login", email, password, 400,
                                       "Incorrect password")
               /\ tokens' = tokens
          ELSE IF ~Verified(users[i])
          THEN /\ authCall' = Exchange("login", email, password, 400,
                                       "Email not verified")
               /\ tokens' = tokens
          ELSE /\ tokens' = tokens \cup {AccessToken(users[i])}
               /\ authCall' = Exchange("login", email, password, 303,
                                       "/auth/login-success")
       /\ UNCHANGED <<users, reg, verifiedOk, newsVars>>

\* Lines 78-95: get_current_user. The token is decoded and the user with its
\* subject looked up; the position of the user's document, 0 when the call
\* is rejected (401).
get_current_user(token) == get_user(users, token.sub)

\* main.py 64-66: GET /me, a request that depends on get_current_user.
Me(token) ==
    /\ token \in tokens
    /\ authCall' =
          IF get_current_user(token) = 0
          THEN Exchange("me", token.sub, "", 401, "User not found")
          ELSE Exchange("me", token.sub, "", 200,
                        users[get_current_user(token)].email)
    /\ UNCHANGED <<users, tokens, reg, verifiedOk, newsVars>>

\* main.py 60-63: get_current_admin lets the current user through when its
\* role is admin.
get_current_admin(token) ==
    /\ get_current_user(token) # 0
    /\ users[get_current_user(token)].role = "admin"

\* main.py 654-686: suspend_user, called with an administrator's token.
\* (update_one also stamps suspended_at with the time of the call, so it
\* always modifies the document it matches.)
SuspendUser(token, user_email) ==
    /\ token \in tokens
    /\ get_current_admin(token)
    /\ LET i == get_user(users, user_email)
       IN IF i = 0
          THEN /\ authCall' = Exchange("suspend", user_email, token.sub, 404,
                                       "User not found")
               /\ users' = users
          ELSE IF users[i].role = "admin"
          THEN /\ authCall' = Exchange("suspend", user_email, token.sub, 403,
                                       "Cannot suspend admin users")
               /\ users' = users
          ELSE /\ users' = SetSuspended(users, user_email)
               /\ authCall' = Exchange("suspend", user_email, token.sub, 200,
                                       "User suspended successfully")
    /\ UNCHANGED <<tokens, reg, verifiedOk, newsVars>>

AllEmails == Emails \cup {AdminEmail}

AuthNext ==
    \/ \E c \in Callers, email \in AllEmails, password \in Passwords :
          RegisterRejected(c, email, password)
    \/ \E c \in Callers, email \in Emails, password \in Passwords :
          RegisterChecked(c, email, password)
    \/ \E c \in Callers : RegisterInsert(c)
    \/ \E c \in Callers : RegisterSent(c)
    \/ \E c \in Callers : RegisterSendFails(c)
    \/ \E email \in AllEmails, code \in Codes : VerifyEmail(email, code)
    \/ \E email \in AllEmails, password \in Passwords : Login(email, password)
    \/ \E token \in tokens : Me(token)
    \/ \E token \in tokens, email \in AllEmails : SuspendUser(token, email)

AuthSpec == Init /\ [][AuthNext]_vars

\* ------------------------------------------------------------ properties
\* The execution has returned or raised.
Finished(r) == pc[r] \in {"done", "raised"}

\* The update_one calls of execution r that the store accepted.
Accepted(r) == {i \in DOMAIN merges[r] : merges[r][i].ok}

\* The (title, link) pairs of a store.
Pairs(st) == {<<st[i].title, st[i].link>> : i \in DOMAIN st}

\* The titles of a store.
TitlesOf(st) == {st[i].title : i \in DOMAIN st}

\* C1: at every moment the news store holds at most one record for each
\* distinct title, whatever the listing, detail-page and image requests
\* return.
C1_OneRecordPerTitle ==
    \A i, j \in DOMAIN store : store[i].title = store[j].title => i = j

\* C2: an execution started on a store that holds a record makes no request
\* and leaves the store as it found it; an execution started on an empty
\* store requests the listing of the sources in order, and has requested
\* the listing of every source when it has left the source loop.
C2_ColdStartGate ==
    \A r \in RunIds :
        pc[r] \notin {"idle", "gate"} =>
            IF startStore[r] # <<>>
            THEN /\ pc[r] = "done"
                 /\ requests[r] = {}
                 /\ merges[r] = <<>>
                 /\ store = startStore[r]
            ELSE listed[r] =
                    IF pc[r] = "listing" THEN 1..(site[r] - 1)
                    ELSE IF pc[r] \in {"trailing", "done", "raised"} THEN Sites
                    ELSE 1..site[r]

\* An execution started on a store with a record has returned.
C2_Witness ==
    \E r \in RunIds : pc[r] = "done" /\ startStore[r] # <<>> /\ gateCount[r] > 0

\* What a step that finds the listing of the current source empty does to
\* everything the rest of the execution reads.
AsEmptyListing(r) ==
    /\ pc'[r] = (IF site[r] < NumSites THEN "listing" ELSE "trailing")
    /\ site'[r] = (IF site[r] < NumSites THEN site[r] + 1 ELSE site[r])
    /\ store' = store
    /\ unique_articles'[r] = unique_articles[r]
    /\ articles_processed'[r] = articles_processed[r]
    /\ title'[r] = title[r]
    /\ news_data'[r] = news_data[r]
    /\ merges'[r] = merges[r]

\* C3: a listing request that fails is treated as a listing with no
\* candidate: the step leaves the execution where an empty listing of that
\* source would, so the other sources are processed and written as if the
\* failing one had been empty.
C3_PerSourceIsolation ==
    [][\A r \in RunIds :
          (pc[r] = "listing" /\ listFailed'[r] # listFailed[r])
              => AsEmptyListing(r)]_vars

\* The listing of the first source failed and a record built from a later
\* source is in the store.
C3_Witness ==
    \E r \in RunIds :
        /\ 1 \in listFailed[r]
        /\ \E i \in Accepted(r) : Origin(merges[r][i].rec) > 1
        /\ \E i \in DOMAIN store : Origin(store[i]) > 1

\* The writes of execution r that carry a record built from source s.
WrittenFrom(r, s) ==
    Cardinality({i \in Accepted(r) : Origin(merges[r][i].rec) = s})

\* The documents of the store built from source s.
StoredFrom(s) ==
    Cardinality({i \in DOMAIN store : Origin(store[i]) = s})

\* C4: for each source, one execution writes at most max_articles records
\* of that source, and the store holds at most max_articles documents built
\* from it.
C4_CapEnforcement ==
    \A s \in Sites :
        /\ StoredFrom(s) <= MaxArticles[s]
        /\ \A r \in RunIds : WrittenFrom(r, s) <= MaxArticles[s]

\* The update_one calls of execution r whose filter is title t.
MergesFor(r, t) == {i \in DOMAIN merges[r] : merges[r][i].key = t}

\* C5: when an execution has met a title again after taking it (the last
\* candidate it read was skipped as already seen, and the detail page of
\* the first occurrence was fetched), the execution issues exactly one
\* update_one for that title.
C5_IntraRunDedup ==
    \A r \in RunIds :
        (Finished(r) /\ dupSkipped[r] /\ title[r] \notin detailFailed[r]) =>
            Cardinality(MergesFor(r, title[r])) = 1

\* C6: a candidate whose image could not be fetched or stored is written
\* all the same, with an image_id of None: when the image step has failed,
\* the record about to be built carries no image id, and once built it is
\* the record of an accepted in-loop update_one and is in the store.
C6_MediaFailureTolerance ==
    \A r \in RunIds :
        imageTried[r] = "failed" =>
            IF pc[r] = "upsert"
            THEN image_id[r] = 0
            ELSE /\ news_data[r].image_id = 0
                 /\ news_data[r].title \in unique_articles[r]
                 /\ \E i \in Accepted(r) :
                       /\ merges[r][i].place = "loop"
                       /\ merges[r][i].rec = news_data[r]
                 /\ \E i \in DOMAIN store : store[i] = news_data[r]

\* The image step of a candidate failed and its record, without image id,
\* is in the store while the article loop goes on.
C6_Witness ==
    \E r \in RunIds :
        /\ imageTried[r] = "failed"
        /\ pc[r] = "loop"
        /\ \E i \in DOMAIN store :
              store[i] = news_data[r] /\ store[i].image_id = 0

\* C7: an execution that follows a completed one on the same store leaves
\* the (title, link) pairs the first left, and the store holds exactly one
\* record for each distinct title.
C7_Idempotence ==
    \A r \in RunIds :
        (pc[r] = "done" /\ startStore[r] # <<>>) =>
            /\ Pairs(store) = Pairs(startStore[r])
            /\ Cardinality(TitlesOf(store)) = Len(store)

\* No record carries a title whose detail request failed.
NoRecordForFailedDetail ==
    \A r \in RunIds : \A t \in detailFailed[r] :
        /\ t \notin TitlesOf(store)
        /\ \A i \in DOMAIN merges[r] : merges[r][i].rec.title # t

\* An execution that left the source loop has requested every listing.
EverySourceListed ==
    \A r \in RunIds :
        (gateCount[r] = 0 /\ pc[r] \in {"trailing", "done", "raised"})
            => listed[r] = Sites

\* A failed detail request goes on with the next candidate of the source.
DetailFailContinues ==
    \A r \in RunIds :
        (pc[r] = "detail" /\ detailFailed'[r] # detailFailed[r]) =>
            /\ pc'[r] = "loop"
            /\ idx'[r] = idx[r] + 1
            /\ site'[r] = site[r]
            /\ articles_processed'[r] = articles_processed[r]
            /\ store' = store

\* C8: a detail request that fails abandons that candidate alone: no record
\* is written for its title, the article loop goes on with the next
\* candidate of the same source, and the later sources are still requested.
C8_DetailFailureIsolation ==
    /\ []NoRecordForFailedDetail
    /\ []EverySourceListed
    /\ [][DetailFailContinues]_vars

\* After a failed detail request, a later candidate of the same (first)
\* source is about to be written.
C8_Witness ==
    \E r \in RunIds :
        /\ detailFailed[r] # {}
        /\ listed[r] = {1}
        /\ pc[r] = "upsert"
        /\ title[r] \notin detailFailed[r]

\* C9: at most one execution of fetch_news is in progress at any time, and
\* a firing of the interval trigger during an execution starts none.
C9_AtMostOneRun ==
    /\ Cardinality({r \in RunIds : InProgress(r)}) <= 1
    /\ firedBusy => pc["job"] = "idle"

\* The trigger has fired while the startup execution was in progress.
C9_Witness == firedBusy /\ InProgress("main")

\* C10: an exception raised inside fetch_news is caught where the
\* execution was started and does not leave the startup handler.
C10_ErrorsCaughtAtRunBoundary ==
    ~(pc["main"] = "raised" /\ host = "failed")

\* C11: while an execution of fetch_news is in progress, the host accepts
\* and serves requests.
C11_HostNotBlocked ==
    (\E r \in RunIds : InProgress(r)) => Accepting

\* C14: a news read endpoint answers with every stored record, ordered by
\* published_at descending.
C14_MostRecentFirst ==
    response.endpoint # "none" =>
        /\ Len(response.body) = Len(store)
        /\ \A i, j \in DOMAIN response.body :
              i < j => response.body[i].published_at
                          >= response.body[j].published_at

\* C15: in the answer of the articles endpoint, the image_url of a record
\* is the image route followed by the stored id when the record has one,
\* and None when its image_id is None.
C15_MediaUrl ==
    response.endpoint = "/news/articles" =>
        \A i \in DOMAIN response.body :
            response.body[i].image_url =
                IF response.body[i].image_id = 0 THEN NoUrl
                ELSE [route |-> "/news/image/", id |-> response.body[i].image_id]

\* C12: every execution of fetch_news that is started finishes (returns or
\* raises): each listing, detail and image request carries a timeout and
\* comes back within it, and the listings are finite.
C12_RunTerminates ==
    \A r \in RunIds : (pc[r] = "gate") ~> Finished(r)

\* An execution that made listing, detail and image requests has returned.
C12_Witness ==
    \E r \in RunIds :
        pc[r] = "done" /\ requests[r] = {"listing", "detail", "image"}

\* C13: a firing of the interval trigger while no execution is in progress
\* makes fetch_news execute: an execution is entered, at its count gate.
C13_IntervalRunsFetch ==
    [][(jobCalls' = jobCalls + 1 /\ \A r \in RunIds : ~InProgress(r))
          => pc'["job"] = "gate"]_vars

\* C16: no update_one is made after the source loop has ended, and every
\* update_one of an execution has as its filter the title of the record it
\* writes.
C16_NoUpsertAfterLoop ==
    \A r \in RunIds : \A i \in DOMAIN merges[r] :
        /\ merges[r][i].place = "loop"
        /\ merges[r][i].key = merges[r][i].rec.title

\* C17: an execution in which no source yields a candidate (every listing
\* request fails or matches nothing) returns without raising and leaves
\* the store empty.
C17_NoCandidatesCompletes ==
    \A r \in RunIds :
        (Finished(r) /\ gateCount[r] = 0 /\ title[r] = UnboundTitle) =>
            pc[r] = "done" /\ store = <<>>

\* The article loop of execution r skips the candidate it reads.
Skipped(r) == pc[r] = "loop" /\ pc'[r] = "loop" /\ idx'[r] = idx[r] + 1

\* The article loop of execution r takes the candidate it reads.
Taken(r) == pc[r] = "loop" /\ pc'[r] = "detail"

\* C18: a candidate is taken only when its title is not in the seen set and
\* it has a link, and taking it adds the title to the seen set; a skipped
\* candidate, seen or without link, leaves the seen set as it was, so a
\* later candidate with that title and a link is still taken.
C18_DedupDecision ==
    [][\A r \in RunIds :
          /\ Skipped(r) => unique_articles'[r] = unique_articles[r]
          /\ Taken(r) =>
                /\ title'[r] \notin unique_articles[r]
                /\ unique_articles'[r] = unique_articles[r] \cup {title'[r]}
                /\ Truthy(link'[r])]_vars

\* A candidate is taken whose title appeared earlier in the execution, on a
\* candidate that was skipped for having no link.
C18_Witness ==
    \E r \in RunIds :
        pc[r] = "detail" /\ title[r] < named /\ title[r] \notin detailFailed[r]

\* The step makes an update_one call of execution r.
MergeStep(r) == Len(merges'[r]) = Len(merges[r]) + 1

\* The update_one call a MergeStep of r makes.
LastMerge(r) == merges'[r][Len(merges'[r])]

\* C19: after an update_one that writes record rec, the store holds a
\* record equal to rec; when a record with the title of rec was in the
\* store before, the number of records is unchanged, otherwise it grows by
\* exactly one.
C19_MergeSemantics ==
    [][\A r \in RunIds :
          (MergeStep(r) /\ LastMerge(r).ok) =>
              LET rec == LastMerge(r).rec
              IN /\ \E i \in DOMAIN store' : store'[i] = rec
                 /\ Len(store') = IF rec.title \in TitlesOf(store)
                                  THEN Len(store) ELSE Len(store) + 1]_vars

\* C20: an update_one that fails for one candidate does not end the
\* execution: the article loop goes on with the next candidate.
C20_FailedWriteContinues ==
    [][\A r \in RunIds :
          (MergeStep(r) /\ ~LastMerge(r).ok /\ LastMerge(r).place = "loop") =>
              pc'[r] = "loop" /\ idx'[r] = idx[r] + 1]_vars

\* The titles of the records execution r has written.
WrittenTitles(r) == {merges[r][i].rec.title : i \in Accepted(r)}

\* C21: when two executions that were in flight together have both written
\* a title and both have finished, the store holds exactly one record with
\* that title.
C21_RacingRunsConverge ==
    \A t \in WrittenTitles("main") \cap WrittenTitles("job") :
        (Finished("main") /\ Finished("job")) =>
            Cardinality({i \in DOMAIN store : store[i].title = t}) = 1

\* C22: every request of an execution, the listing, the detail and the
\* image request alike, carries the browser-like User-Agent and Accept
\* headers and a Referer that is the listing URL of the source at hand.
C22_RequestHeaders ==
    [][\A r \in RunIds : \A k \in requests'[r] \ requests[r] :
          HeadersSent(k, site[r]) = BrowserHeaders(site[r])]_vars

\* A reference that uses the data: scheme.
IsDataUrl(u) == u.kind \in {"data_image", "data_other"}

\* The image elements whose reference is a data: URL.
DataTags == {tag \in ImgTags : IsDataUrl(ImgUrlOf(1, tag))}

\* Where the detail step leaves img_url and the execution when the page
\* shows one of these elements (a data: URL is not changed by urljoin,
\* whatever the site).
DataOutcomes ==
    {LET u == ImgUrlOf(1, tag)
     IN <<IF Uploadable(u) THEN u ELSE NoImg,
          IF Uploadable(u) THEN "image" ELSE "upsert">> : tag \in DataTags}

\* Where the detail step leaves img_url and the execution for each source and
\* each image element the detail page can show.
DetailOutcome ==
    [s \in Sites |->
       [tag \in ImgTags |->
          LET u == ImgUrlOf(s, tag)
          IN <<IF Uploadable(u) THEN u ELSE NoImg,
               IF Uploadable(u) THEN "image" ELSE "upsert">>]]

\* The first of data-src, src, srcset that has a non-empty value.
FirstNonEmpty(tag) ==
    IF tag.data_src \notin {"absent", "empty"} THEN tag.data_src
    ELSE IF tag.src \notin {"absent", "empty"} THEN tag.src
    ELSE IF tag.srcset \notin {"absent", "empty"} THEN tag.srcset
    ELSE "absent"

\* The first of data-src, src, srcset that the element carries at all.
FirstPresent(tag) ==
    IF tag.data_src # "absent" THEN tag.data_src
    ELSE IF tag.src # "absent" THEN tag.src
    ELSE tag.srcset

\* The reference value v made absolute, as line 194 sees it: nothing when v
\* is missing or empty or names a data:image URL.
SeenAtUpload(s, v) ==
    IF v \in {"absent", "empty", "data_image"} THEN NoImg ELSE UrlJoin(s, v)

\* The image step of execution r ends.
ImageStepEnds(r) == pc[r] = "image" /\ pc'[r] # "image"

\* The record of the candidate is written.
WritesCandidate(r) == pc[r] = "upsert" /\ pc'[r] = "loop"

\* C23: an image reference with the data: scheme is rejected: no image
\* request goes out and nothing is uploaded for it, and the candidate's
\* record is written with image_id None.
C23_InlineDataRejected ==
    [][\A r \in RunIds :
          /\ (pc[r] = "detail" /\ <<img_url'[r], pc'[r]>> \in DataOutcomes) =>
                /\ image_id'[r] = 0
                /\ nextId' = nextId
                /\ "image" \in requests'[r] => "image" \in requests[r]
                /\ pc'[r] = "upsert"
                   \/ (pc'[r] = "image" /\ IsDataUrl(img_url'[r]))
          /\ (ImageStepEnds(r) /\ IsDataUrl(img_url[r])) =>
                /\ pc'[r] = "upsert"
                /\ image_id'[r] = 0
                /\ nextId' = nextId
                /\ requests'[r] = requests[r]
          /\ WritesCandidate(r) =>
                /\ news_data'[r].image_id = image_id[r]
                /\ \E i \in DOMAIN store' : store'[i] = news_data'[r]]_vars

\* A candidate whose image reference is a data: URL is about to be written:
\* its image step ended without a stored image and no image request has
\* gone out in the execution.
C23_Witness ==
    \E r \in RunIds :
        /\ pc[r] = "upsert"
        /\ imageTried[r] = "failed"
        /\ image_id[r] = 0
        /\ "image" \notin requests[r]

\* The outcomes <<source, img_url, next step>> of the detail step that agree
\* with ref for every image element they can come from: the element's
\* reference is ref(tag), and the image is fetched exactly when line 194
\* sees a reference; without an element nothing is seen and nothing fetched.
OutcomesAgreeing(ref(_)) ==
    {<<s, DetailOutcome[s][shown][1], DetailOutcome[s][shown][2]>> :
        <<s, shown>> \in
            {st \in Sites \X ImgTags :
                \A tag \in ImgTags :
                    DetailOutcome[st[1]][tag] = DetailOutcome[st[1]][st[2]] =>
                        LET url == DetailOutcome[st[1]][tag][1]
                            next == DetailOutcome[st[1]][tag][2]
                        IN IF tag.found
                           THEN /\ url = SeenAtUpload(st[1], ref(tag))
                                /\ next = "image" <=> url # NoImg
                           ELSE url = NoImg /\ next = "upsert"}}
AsAmended == OutcomesAgreeing(FirstNonEmpty)
AsStated == OutcomesAgreeing(FirstPresent)

\* C24 (as amended): the image reference is taken from the first element the
\* image selector matches: its data-src when that has a non-empty value,
\* else its src when non-empty, else its srcset when non-empty; when no
\* element matches, the reference is none and no image fetch is attempted.
C24_ImageReference ==
    [][\A r \in RunIds :
          (pc[r] = "detail" /\ pc'[r] \in {"image", "upsert"}) =>
             /\ <<site[r], img_url'[r], pc'[r]>> \in AsAmended
             /\ image_id'[r] = 0
             /\ requests'[r] = requests[r] \cup {"detail"}]_vars

\* C24 as stated: the element's data-src is the reference whenever the
\* element carries one, else its src whenever it carries one, else its
\* srcset.
C24_FirstPresentAttribute ==
    [][\A r \in RunIds :
          (pc[r] = "detail" /\ pc'[r] \in {"image", "upsert"}) =>
             <<site[r], img_url'[r], pc'[r]>> \in AsStated]_vars

\* An execution is about to fetch the image its detail page referred to by
\* a relative URL.
C24_Witness ==
    \E r \in RunIds :
        /\ pc[r] = "image"
        /\ imageTried[r] = "no"
        /\ img_url[r] = [kind |-> "joined", site |-> site[r]]

\* The article loop of execution r reads a candidate.
ReadsCandidate(r) == Skipped(r) \/ Taken(r)

\* C25: a title is in the seen set when its detail page is requested, and
\* stays there when the request fails: every later candidate of the
\* execution with that title, from the same or another source, is skipped
\* and no detail page is requested for it.
C25_SeenBeforeDetailFetch ==
    /\ [](\A r \in RunIds :
             /\ pc[r] = "detail" => title[r] \in unique_articles[r]
             /\ InProgress(r) => detailFailed[r] \subseteq unique_articles[r])
    /\ [][\A r \in RunIds :
             (ReadsCandidate(r) /\ title'[r] \in detailFailed[r]) =>
                /\ Skipped(r)
                /\ requests'[r] = requests[r]
                /\ detailFailed'[r] = detailFailed[r]
                /\ unique_articles'[r] = unique_articles[r]]_vars

\* The first candidate of a later source was skipped for a title whose
\* detail request failed on an earlier source.
C25_Witness ==
    \E r \in RunIds :
        /\ pc[r] = "loop"
        /\ site[r] > 1
        /\ idx[r] = 2
        /\ dupSkipped[r]
        /\ title[r] \in detailFailed[r]

\* Execution r is in the article loop of a source.
InArticleLoop(r) == pc[r] \in {"loop", "detail", "image", "upsert"}

\* The listing elements the article loop of execution r has read.
CandidatesRead(r) == IF pc[r] = "loop" THEN idx[r] - 1 ELSE idx[r]

\* The update_one calls the article loop of execution r made for source s
\* that the store accepted.
LoopMergesFrom(r, s) ==
    Cardinality({i \in Accepted(r) : /\ merges[r][i].place = "loop"
                                     /\ Origin(merges[r][i].rec) = s})

\* C26: articles_processed counts the accepted update_one calls of the
\* article loop for the source at hand and nothing else: a candidate skipped
\* for a seen title or a missing link, or dropped for a failed detail
\* request, leaves it as it was. The article loop is left only with the
\* cap reached or the listing at its end. The detail requests made for the
\* source never exceed the listing elements read.
C26_SkippedNotCounted ==
    /\ [](\A r \in RunIds :
             InArticleLoop(r) =>
                /\ articles_processed[r] = LoopMergesFrom(r, site[r])
                /\ detailFetches[r] <= CandidatesRead(r)
                /\ CandidatesRead(r) <= MaxListing)
    /\ [][\A r \in RunIds :
             /\ (Skipped(r) \/ (pc[r] = "detail" /\ pc'[r] = "loop")) =>
                   /\ articles_processed'[r] = articles_processed[r]
                   /\ ~MergeStep(r)
             /\ (InArticleLoop(r) /\ ~InArticleLoop(r)') =>
                   /\ pc[r] = "loop"
                   /\ \/ articles_processed[r] = MaxArticles[site[r]]
                      \/ /\ articles_processed[r] < MaxArticles[site[r]]
                         /\ idx[r] > 1]_vars

\* More detail requests were made for a source than its max_articles.
C26_Witness ==
    \E r \in RunIds :
        InArticleLoop(r) /\ detailFetches[r] > MaxArticles[site[r]]

\* The step ends a login call that issues an access token.
LoginIssues == authCall' # authCall /\ authCall'.op = "login"
               /\ authCall'.status = 303

\* The step ends a verify_email call that succeeds.
VerifySucceeds == authCall' # authCall /\ authCall'.op = "verify-email"
                  /\ authCall'.status = 200

\* C27: a login call issues a token only when a user with the email exists,
\* the password verifies against the stored digest and is_verified is true;
\* tokens are issued by login alone; is_verified becomes true only in a
\* verify_email call whose code equals the stored verification_code; so an
\* email that register put into the collection holds a token only after a
\* verify_email call for it succeeded.
C27_TokenAfterVerification ==
    /\ [][/\ LoginIssues =>
               LET i == get_user(users, authCall'.email)
               IN /\ i # 0
                  /\ verify_password(authCall'.given, users[i].password)
                  /\ users[i].is_verified
                  /\ tokens' = tokens \cup {AccessToken(users[i])}
          /\ tokens' # tokens => LoginIssues
          /\ \A i \in DOMAIN users :
                (~users[i].is_verified /\ users'[i].is_verified) =>
                   /\ VerifySucceeds
                   /\ authCall'.email = users[i].email
                   /\ authCall'.given = users[i].verification_code]_vars
    /\ [](\A token \in tokens :
             token.sub \in Emails => token.sub \in verifiedOk)

\* A registered user holds a token.
C27_Witness ==
    \E token \in tokens : token.sub \in Emails /\ token.sub \in verifiedOk

\* C28: the users collection holds at most one document per email, and a
\* register call for an email that is in the collection is rejected with
\* "Email already registered".
C28_OneUserPerEmail ==
    /\ [](\A email \in AllEmails : Cardinality(WithEmail(users, email)) <= 1)
    /\ [][\A c \in Callers :
             (reg[c].at = "idle" /\ reg'[c].at = "checked") =>
                get_user(users, reg'[c].email) = 0]_vars

\* C29: a register call whose verification email cannot be sent answers
\* with an error and leaves no document for the email in the collection.
C29_FailedSendLeavesNoUser ==
    [][\A c \in Callers :
          (reg[c].at = "inserted" /\ reg'[c].at = "idle"
           /\ authCall'.op = "register" /\ authCall'.status = 500) =>
             WithEmail(users', reg[c].email) = {}]_vars

\* The user with this email is suspended.
Suspended(us, email) ==
    get_user(us, email) # 0 /\ us[get_user(us, email)].is_suspended

\* C30: a suspended user gets no access token from login and is rejected
\* by get_current_user; no document with the role admin is suspended.
C30_SuspendedLockedOut ==
    /\ [](\A i \in DOMAIN users :
             users[i].role = "admin" => ~users[i].is_suspended)
    /\ [][/\ LoginIssues => ~Suspended(users, authCall'.email)
          /\ (authCall' # authCall /\ authCall'.op = "me"
              /\ Suspended(users, authCall'.email)) =>
                authCall'.status # 200]_vars

====
